---- MODULE Spec2Model ----
(***************************************************************************)
(* Model of imdb_tv_scraper.py: the resumable batch loop of                *)
(* process_tv_list, its durable artifacts (progress file, temporary CSV,   *)
(* failure files, final CSV) and the retry loop of search_tv_show.         *)
(*                                                                         *)
(* A file is modelled by its membership in `files` (os.path.exists) and    *)
(* by its content.  A CSV row and a failure entry are identified by the    *)
(* position of the title they belong to; the header line of a CSV is the   *)
(* value CsvHeader and the row written from the empty dict is EmptyRow.    *)
(***************************************************************************)
EXTENDS Integers, Sequences, FiniteSets, TLC

\* ------------------------------------------------------------------ bounds
NumShows == 11          \* len(tv_shows): number of non-blank input lines
MaxRuns == 2            \* invocations of process_tv_list on the same output
MaxFailures == 1        \* cap on the entries of the detailed failure log
LongShows == 20         \* len(tv_shows) of the long list of SpecResume
MaxRunsResume == 3      \* invocations under SpecResume
MaxCands == 2           \* candidates returned by one ia.search_movie call
MaxRetriesArg == 3      \* largest max_retries argument of SpecRetry

\* ------------------------------------------------------- program constants
max_retries == 3        \* search_tv_show default argument
SaveEvery == 10         \* "if position % 10 == 0"
CsvHeader == -1         \* the line written by writer.writeheader()
EmptyRow == 0           \* the line written by writer.writerow({})
FailedHeader == 0       \* the "FAILED TITLES" block of the detailed log
Unreadable == -1        \* progress file content that int() rejects
None == 0               \* load_progress() result None (falsy, like 0)

VARIABLES
    num_shows,          \* len(tv_shows), the same input for every invocation
    script,             \* what the lookup client answers, attempt by attempt
    retries,            \* the max_retries argument of search_tv_show
    extract,            \* what the try block does with a matched show
    ret,                \* what search_tv_show returned for the item in hand
    files,              \* names of the files that exist
    progress_file,      \* content of <base>_progress.txt
    temp_csv,           \* lines of <base>_temp.csv
    failed_file,        \* blocks of <base>_failed.txt
    failed_list_file,   \* lines of <base>_failed_list.txt
    output_file,        \* lines of the final CSV
    pc,                 \* where the current invocation stands
    last_position,      \* process_tv_list local
    start_position,     \* process_tv_list local
    position,           \* loop variable of "for position, title in enumerate"
    results,            \* process_tv_list local (in-memory rows)
    success_count,      \* process_tv_list local
    failed_count,       \* process_tv_list local
    runs,               \* invocations started so far
    mode,               \* how this invocation started: fresh/resume/restart
    lookups,            \* positions handed to search_tv_show in this run
    temp_base,          \* Len(temp_csv) when the loop of this run began
    failed_base,        \* entries of failed_file when this run began
    list_base,          \* Len(failed_list_file) when this run began
    processed,          \* positions given an outcome since the last Done
    boundary,           \* last position checkpointed by the latest run segment
    last_done,          \* last position recorded by the latest run segment
    start_files,        \* artifacts {progress, temp} present at startup
    start_marker        \* progress file content at startup

vars == <<num_shows, script, retries, extract, ret, files, progress_file, temp_csv, failed_file, failed_list_file,
          output_file, pc, last_position, start_position, position, results,
          success_count, failed_count, runs, mode, lookups, temp_base,
          failed_base, list_base, processed, boundary, last_done,
          start_files, start_marker>>

disk == <<files, progress_file, temp_csv, failed_file, failed_list_file,
          output_file>>
inputs == <<num_shows, script, retries, extract>>
locals == <<inputs, ret, last_position, start_position, position, results, success_count,
            failed_count>>
ghosts == <<lookups, temp_base, failed_base, list_base, processed, boundary,
            last_done, start_files, start_marker>>

\* ----------------------------------------------------------- search_tv_show
\* One attempt of the retry loop ends in one of these ways.
AttemptOutcomes == {"found", "empty", "notv", "transient", "permanent"}

RECURSIVE SeqsOfLen(_, _)
SeqsOfLen(S, n) ==
    IF n = 0 THEN {<<>>}
    ELSE {Append(s, x) : s \in SeqsOfLen(S, n - 1), x \in S}

\* What the lookup client does on each of the max_retries possible attempts.
Scripts == SeqsOfLen(AttemptOutcomes, max_retries)

\* Mutant of RetriesLeft: the last attempt sleeps and retries as well.
RetriesLeftAlways(attempt, k) == attempt < k

\* "if attempt < max_retries - 1"
RetriesLeft(attempt, k) == attempt < k - 1

\* Mutant of backoff_delay: the delays start at one second.
backoff_delay_from_one(attempt) == 2 ^ attempt

\* "backoff_delay = 2 ** (attempt + 1)"
backoff_delay(attempt) == 2 ^ (attempt + 1)

\* The loop "for attempt in range(k)" from iteration `attempt` on, over the
\* outcomes of the attempts; `sleeps` are the time.sleep calls made so far.
RECURSIVE search_loop(_, _, _, _)
search_loop(k, outcomes, attempt, sleeps) ==
    IF attempt >= k
    THEN [show |-> FALSE, error |-> "Max retries exceeded",
          sleeps |-> sleeps, calls |-> attempt]
    ELSE LET o == outcomes[attempt + 1] IN
         CASE o = "empty" ->
                [show |-> FALSE, error |-> "No results found",
                 sleeps |-> sleeps, calls |-> attempt + 1]
           [] o = "found" ->
                [show |-> TRUE, error |-> "",
                 sleeps |-> sleeps, calls |-> attempt + 1]
           [] o = "notv" ->
                [show |-> FALSE, error |-> "No TV series found in results",
                 sleeps |-> sleeps, calls |-> attempt + 1]
           [] o = "transient" ->
                IF RetriesLeft(attempt, k)
                THEN search_loop(k, outcomes, attempt + 1,
                                 Append(sleeps, backoff_delay(attempt)))
                ELSE [show |-> FALSE,
                      error |-> "Exception: HTTP 429: Too Many Requests",
                      sleeps |-> sleeps, calls |-> attempt + 1]
           [] OTHER ->
                [show |-> FALSE, error |-> "Exception: error",
                 sleeps |-> sleeps, calls |-> attempt + 1]

search_tv_show(outcomes) == search_loop(max_retries, outcomes, 0, <<>>)

\* Every (show, error) pair search_tv_show can hand to process_tv_list.
SearchResults == {search_tv_show(s) : s \in Scripts}

\* What happens to a matched show inside the try block of process_tv_list:
\* all goes well, extract_show_data raises, or append_to_csv raises.
ExtractOutcomes == {"ok", "extract_raises", "csv_raises"}

\* ------------------------------------------- one attempt of search_tv_show
\* str(e) of an exception raised by ia.search_movie, reduced to what the
\* code tests: whether it starts with '{' and which substrings it contains.
ErrorTexts == [brace : BOOLEAN, has405 : BOOLEAN, has429 : BOOLEAN,
               hasTMR : BOOLEAN]

PlainText == [brace |-> FALSE, has405 |-> FALSE, has429 |-> FALSE,
              hasTMR |-> FALSE]

\* "HTTP 405: Not Allowed" and "HTTP 429: Too Many Requests"
Text405 == [PlainText EXCEPT !.has405 = TRUE]
Text429 == [PlainText EXCEPT !.has429 = TRUE, !.hasTMR = TRUE]

\* "Clean up verbose error messages"
clean_error(m) ==
    IF m.brace
    THEN IF m.has405 THEN Text405
         ELSE IF m.has429 THEN Text429
         ELSE PlainText
    ELSE m

\* Mutant of retryable: every raised error is retried.
retryable_always(m) == TRUE

\* "if '405' in error_msg or '429' in error_msg or 'Too Many Requests' in
\* error_msg"
retryable(m) == m.has405 \/ m.has429 \/ m.hasTMR

\* A search result is described by what ia.update and result.get('kind')
\* do with it: the kind it turns out to have, or ia.update raising (an
\* ordinary error, or one whose text is rate-limit-class).
RaisingKinds == {"update raises", "update raises 429"}

\* Mutant of AcceptedKinds: films are accepted as well.
AcceptedKindsAndMovies == {"tv series", "tv mini series", "movie"}

\* "result.get('kind') in ['tv series', 'tv mini series']"
AcceptedKinds == {"tv series", "tv mini series"}

CandidateKinds == AcceptedKinds \cup {"movie"} \cup RaisingKinds

CandidateLists == UNION {SeqsOfLen(CandidateKinds, n) : n \in 0..MaxCands}

\* "for result in results": the index of the result returned (0 for none)
\* and the number of ia.update calls made.
RECURSIVE walk_results(_, _)
walk_results(cands, i) ==
    IF i > Len(cands) THEN [match |-> 0, fetched |-> Len(cands)]
    ELSE IF cands[i] \in RaisingKinds THEN walk_results(cands, i + 1)
    ELSE IF cands[i] \in AcceptedKinds THEN [match |-> i, fetched |-> i]
    ELSE walk_results(cands, i + 1)

\* What one call of ia.search_movie does: it raises, or returns a list.
Raises(m) == [raised |-> TRUE, text |-> m, cands |-> <<>>]
Returns(c) == [raised |-> FALSE, text |-> PlainText, cands |-> c]

Responses == {Raises(m) : m \in ErrorTexts} \cup
             {Returns(c) : c \in CandidateLists}

\* The way one attempt ends, as the code classifies the response.
AttemptOutcome(resp) ==
    IF resp.raised
    THEN IF retryable(clean_error(resp.text)) THEN "transient"
         ELSE "permanent"
    ELSE IF resp.cands = <<>> THEN "empty"
    ELSE IF walk_results(resp.cands, 1).match > 0 THEN "found"
    ELSE "notv"

OutcomesOf(responses) ==
    [i \in DOMAIN responses |-> AttemptOutcome(responses[i])]

\* No call of search_tv_show has returned yet.
NoRet == [show |-> FALSE, error |-> "", sleeps |-> <<>>, calls |-> 0,
          match |-> 0, fetched |-> 0]

\* search_tv_show(ia, title, k) against a client that answers `responses`:
\* the returned pair, the sleeps and calls made, and the walk over the
\* results of the attempt that returned.
search_item(responses, k) ==
    LET r == search_loop(k, OutcomesOf(responses), 0, <<>>)
        last == responses[r.calls]
        w == IF last.raised THEN [match |-> 0, fetched |-> 0]
             ELSE walk_results(last.cands, 1)
    IN  [show |-> r.show, error |-> r.error, sleeps |-> r.sleeps,
         calls |-> r.calls, match |-> w.match, fetched |-> w.fetched]

\* The responses that make the code retry.
TransientResponses == {r \in Responses : AttemptOutcome(r) = "transient"}

\* The clients of SpecItem: the same transient response up to max_retries - 1
\* times, then one response to every later call.
ItemScripts ==
    {[i \in 1..max_retries |-> IF i <= t THEN pre ELSE r] :
        pre \in TransientResponses, t \in 0..(max_retries - 1),
        r \in Responses}

\* The clients of SpecRetry answer each attempt with one response of each
\* class.
BasicResponses == {Raises(Text429), Raises(PlainText), Returns(<<>>),
                   Returns(<<"tv series">>), Returns(<<"movie">>)}

\* ------------------------------------------------------------ file helpers
Exists(f) == f \in files

load_progress ==
    IF Exists("progress")
    THEN IF progress_file = Unreadable THEN None ELSE progress_file
    ELSE None

\* append_to_csv(temp_csv, {}, write_header=True)
InitTempContent == <<CsvHeader, EmptyRow>>

\* Mutant of FailedFileAfter: a new detailed log gets no header block.
FailedFileNoHeader(p) == Append(failed_file, p)

\* append_failure: the detailed log gets its header only when it is created
FailedFileAfter(p) ==
    IF Exists("failed") THEN Append(failed_file, p)
    ELSE <<FailedHeader, p>>

\* The entries of the detailed log, without its header block.
FailedEntries == SelectSeq(failed_file, LAMBDA e : e # FailedHeader)

\* Mutant of ResumeStart: resume at the checkpointed position itself.
ResumeStartAtMarker(last) == last

\* "start_position = last_position + 1"
ResumeStart(last) == last + 1

\* Mutant of SaveDue: the checkpoint test is off by one.
SaveDueOffByOne(p) == p % SaveEvery = 1

\* "if position % 10 == 0"
SaveDue(p) == p % SaveEvery = 0

\* Mutant of SaveValue: the position about to be processed is saved.
SaveValueNext(p) == p + 1

\* save_progress(output_file, position)
SaveValue(p) == p

\* Mutant of FinalContent: the final CSV is a copy of the temporary CSV.
FinalContentFromTemp(rs) == temp_csv

\* writer.writeheader(); writer.writerows(results)
FinalContent(rs) == <<CsvHeader>> \o rs

\* -------------------------------------------------------------------- Init
\* No invocation started, a list of n titles.
InitMemory(n) ==
    /\ num_shows = n
    /\ failed_file = <<>>
    /\ failed_list_file = <<>>
    /\ output_file = <<>>
    /\ pc = "idle"
    /\ last_position = None
    /\ start_position = 1
    /\ position = 0
    /\ results = <<>>
    /\ success_count = 0
    /\ failed_count = 0
    /\ runs = 0
    /\ mode = "fresh"
    /\ lookups = <<>>
    /\ temp_base = 0
    /\ failed_base = 0
    /\ list_base = 0
    /\ start_files = {}
    /\ start_marker = None
    /\ ret = NoRet

\* Nothing on disk.
InitBase(n) ==
    /\ InitMemory(n)
    /\ files = {}
    /\ progress_file = None
    /\ temp_csv = <<>>
    /\ processed = {}
    /\ boundary = 0
    /\ last_done = 0

\* The lookups of the batch specifications are drawn inside ProcessItem.
InitWith(n) ==
    /\ InitBase(n)
    /\ script = <<>>
    /\ retries = max_retries
    /\ extract = "ok"

Init == InitWith(NumShows)

InitLong == InitWith(LongShows)

\* What an invocation interrupted right after its first checkpoint leaves
\* behind when all its lookups matched.
CheckpointedTemp == InitTempContent \o [i \in 1..SaveEvery |-> i]

\* The invocation starts on an empty directory, or on the marker and the
\* temporary CSV left by an interrupted one.
InitFair ==
    /\ InitMemory(NumShows)
    /\ script = <<>>
    /\ retries = max_retries
    /\ extract = "ok"
    /\ \/ /\ files = {}
          /\ progress_file = None
          /\ temp_csv = <<>>
          /\ processed = {}
          /\ boundary = 0
          /\ last_done = 0
       \/ /\ files = {"progress", "temp"}
          /\ progress_file = SaveEvery
          /\ temp_csv = CheckpointedTemp
          /\ processed = 1..SaveEvery
          /\ boundary = SaveEvery
          /\ last_done = SaveEvery

\* One title, looked up with the default max_retries against any client.
InitItem ==
    /\ InitBase(1)
    /\ script \in ItemScripts
    /\ retries = max_retries
    /\ extract \in ExtractOutcomes

\* A call of search_tv_show alone, with max_retries = 1..MaxRetriesArg.
InitRetry ==
    /\ InitBase(1)
    /\ retries \in 1..MaxRetriesArg
    /\ script \in SeqsOfLen(BasicResponses, retries)
    /\ extract = "ok"

Running == {"prompt", "rm_temp", "rm_progress", "init", "loop", "checkpoint",
            "cleanup_temp", "cleanup_progress"}

\* ----------------------------------------------------------------- actions
\* Mutant of ResumeOffered: a readable marker alone brings up the prompt.
ResumeOfferedOnMarker == load_progress # None

\* "if last_position and os.path.exists(temp_csv)"
ResumeOffered == load_progress # None /\ Exists("temp")

\* process_tv_list up to the resume check: read the list, load the marker.
StartRunUpTo(limit) ==
    /\ pc \in {"idle", "aborted", "done"}
    /\ runs < limit
    /\ runs' = runs + 1
    /\ last_position' = load_progress
    /\ start_position' = 1
    /\ position' = 0
    /\ results' = <<>>
    /\ success_count' = 0
    /\ failed_count' = 0
    /\ lookups' = <<>>
    /\ mode' = "fresh"
    /\ temp_base' = Len(temp_csv)
    /\ failed_base' = Len(FailedEntries)
    /\ list_base' = Len(failed_list_file)
    /\ processed' = IF pc = "done" THEN {} ELSE processed
    /\ start_files' = files \cap {"progress", "temp"}
    /\ start_marker' = progress_file
    /\ pc' = IF ResumeOffered THEN "prompt" ELSE "init"
    /\ UNCHANGED <<inputs, ret, disk, boundary, last_done>>

StartRun == StartRunUpTo(MaxRuns)

StartRunResume == StartRunUpTo(MaxRunsResume)

\* input(...) answered 'y'
Resume ==
    /\ pc = "prompt"
    /\ start_position' = ResumeStart(last_position)
    /\ mode' = "resume"
    /\ pc' = IF start_position' = 1 THEN "init" ELSE "loop"
    /\ UNCHANGED <<inputs, ret, disk, last_position, position, results,
                   success_count, failed_count, runs, ghosts>>

\* input(...) answered anything else
Restart ==
    /\ pc = "prompt"
    /\ start_position' = 1
    /\ mode' = "restart"
    /\ pc' = "rm_temp"
    /\ UNCHANGED <<inputs, ret, disk, last_position, position, results,
                   success_count, failed_count, runs, ghosts>>

RemoveTemp ==
    /\ pc = "rm_temp"
    /\ files' = files \ {"temp"}
    /\ temp_csv' = <<>>
    /\ pc' = "rm_progress"
    /\ UNCHANGED <<progress_file, failed_file, failed_list_file, output_file,
                   locals, runs, mode, ghosts>>

\* Mutant of RemoveProgress: the progress file survives the restart.
RemoveProgressKept ==
    /\ pc = "rm_progress"
    /\ pc' = "init"
    /\ UNCHANGED <<disk, locals, runs, mode, ghosts>>

RemoveProgress ==
    /\ pc = "rm_progress"
    /\ files' = files \ {"progress"}
    /\ progress_file' = None
    /\ pc' = "init"
    /\ UNCHANGED <<temp_csv, failed_file, failed_list_file, output_file,
                   locals, runs, mode, ghosts>>

\* "if start_position == 1: append_to_csv(temp_csv, {}, write_header=True)"
InitTemp ==
    /\ pc = "init"
    /\ files' = files \cup {"temp"}
    /\ temp_csv' = InitTempContent
    /\ temp_base' = Len(InitTempContent)
    /\ boundary' = 0
    /\ last_done' = 0
    /\ pc' = "loop"
    /\ UNCHANGED <<progress_file, failed_file, failed_list_file, output_file,
                   locals, runs, mode, lookups, failed_base, list_base,
                   processed, start_files, start_marker>>

\* "if position < start_position: continue"
Skip ==
    /\ pc = "loop"
    /\ position < num_shows
    /\ position + 1 < start_position
    /\ position' = position + 1
    /\ UNCHANGED <<inputs, ret, disk, pc, last_position, start_position,
                   results, success_count, failed_count, runs, mode, ghosts>>

\* The rows and counters after a matched show was extracted and appended.
RecordSuccess(p) ==
    /\ results' = Append(results, p)
    /\ temp_csv' = Append(temp_csv, p)
    /\ files' = files \cup {"temp"}
    /\ success_count' = success_count + 1
    /\ UNCHANGED <<failed_file, failed_list_file, failed_count>>

\* append_failure(...) and failed_count += 1; `kept` tells whether
\* results.append(show_data) had already run when the exception was raised.
RecordFailure(p, kept) ==
    /\ Len(FailedEntries) < MaxFailures
    /\ failed_file' = FailedFileAfter(p)
    /\ failed_list_file' = Append(failed_list_file, p)
    /\ files' = files \cup {"failed", "failed_list"}
    /\ failed_count' = failed_count + 1
    /\ results' = IF kept THEN Append(results, p) ELSE results
    /\ UNCHANGED <<temp_csv, success_count>>

\* "if show: try ... except ... else ...": what the loop body does with the
\* pair returned by search_tv_show.
RecordItem(p, show, ex) ==
    IF show
    THEN IF ex = "ok" THEN RecordSuccess(p)
         ELSE RecordFailure(p, ex = "csv_raises")
    ELSE RecordFailure(p, FALSE)

\* One iteration of the loop body up to the outcome being recorded.
ProcessItem ==
    /\ pc = "loop"
    /\ position < num_shows
    /\ position + 1 >= start_position
    /\ position' = position + 1
    /\ lookups' = Append(lookups, position + 1)
    /\ processed' = processed \cup {position + 1}
    /\ last_done' = position + 1
    /\ \E r \in SearchResults, ex \in ExtractOutcomes :
          RecordItem(position + 1, r.show, ex)
    /\ pc' = "checkpoint"
    /\ UNCHANGED <<inputs, ret, progress_file, output_file, last_position,
                   start_position, runs, mode, temp_base, failed_base, list_base, boundary,
                   start_files, start_marker>>

\* "if position % 10 == 0: save_progress(...)", then the optional delay
\* (time.sleep changes no state).
Checkpoint ==
    /\ pc = "checkpoint"
    /\ IF SaveDue(position)
       THEN /\ files' = files \cup {"progress"}
            /\ progress_file' = SaveValue(position)
            /\ boundary' = progress_file'
       ELSE UNCHANGED <<files, progress_file, boundary>>
    /\ pc' = "loop"
    /\ UNCHANGED <<last_done, temp_csv, failed_file, failed_list_file, output_file,
                   locals, runs, mode, lookups, temp_base, failed_base,
                   list_base, processed, start_files, start_marker>>

\* Mutant of WriteFinal: the loop is left at the first failure.
WriteFinalAfterFailure ==
    /\ pc = "loop"
    /\ position = num_shows \/ failed_count > 0
    /\ files' = files \cup {"output"}
    /\ output_file' = FinalContent(results)
    /\ pc' = "cleanup_temp"
    /\ UNCHANGED <<progress_file, temp_csv, failed_file, failed_list_file,
                   locals, runs, mode, ghosts>>

\* The loop is exhausted: write the final CSV from `results`.
WriteFinal ==
    /\ pc = "loop"
    /\ position = num_shows
    /\ files' = files \cup {"output"}
    /\ output_file' = FinalContent(results)
    /\ pc' = "cleanup_temp"
    /\ UNCHANGED <<progress_file, temp_csv, failed_file, failed_list_file,
                   locals, runs, mode, ghosts>>

CleanupTemp ==
    /\ pc = "cleanup_temp"
    /\ files' = files \ {"temp"}
    /\ temp_csv' = <<>>
    /\ pc' = "cleanup_progress"
    /\ UNCHANGED <<progress_file, failed_file, failed_list_file, output_file,
                   locals, runs, mode, ghosts>>

CleanupProgress ==
    /\ pc = "cleanup_progress"
    /\ files' = files \ {"progress"}
    /\ progress_file' = None
    /\ pc' = "done"
    /\ UNCHANGED <<temp_csv, failed_file, failed_list_file, output_file,
                   locals, runs, mode, ghosts>>

\* The process is gone: its memory is lost, the files stay.
ProcessExit ==
    /\ pc' = "aborted"
    /\ last_position' = None
    /\ start_position' = 1
    /\ position' = 0
    /\ results' = <<>>
    /\ success_count' = 0
    /\ failed_count' = 0
    /\ lookups' = <<>>
    /\ mode' = "fresh"
    /\ temp_base' = 0
    /\ failed_base' = 0
    /\ list_base' = 0
    /\ start_files' = {}
    /\ start_marker' = None
    /\ UNCHANGED <<inputs, ret, runs, processed, boundary, last_done>>

\* Mutant of Abort: the handler removes the temporary CSV on its way out.
AbortDiscardsTemp ==
    /\ pc \in Running \cup {"interrupted"}
    /\ ProcessExit
    /\ files' = files \ {"temp"}
    /\ temp_csv' = <<>>
    /\ UNCHANGED <<progress_file, failed_file, failed_list_file, output_file>>

\* KeyboardInterrupt (or an escaped exception) reaches main: a message is
\* printed and the process exits.
Abort ==
    /\ pc \in Running \cup {"interrupted"}
    /\ ProcessExit
    /\ UNCHANGED disk

\* The interrupt is raised inside save_progress, after open(..., 'w')
\* truncated the file and before f.write.
AbortInSaveProgress ==
    /\ pc = "checkpoint"
    /\ SaveDue(position)
    /\ files' = files \cup {"progress"}
    /\ progress_file' = Unreadable
    /\ pc' = "interrupted"
    /\ UNCHANGED <<temp_csv, failed_file, failed_list_file, output_file,
                   locals, runs, mode, ghosts>>

\* The interrupt is raised inside append_failure, between the two files.
AbortInAppendFailure ==
    /\ pc = "loop"
    /\ position < num_shows
    /\ position + 1 >= start_position
    /\ Len(FailedEntries) < MaxFailures
    /\ failed_file' = FailedFileAfter(position + 1)
    /\ files' = files \cup {"failed"}
    /\ pc' = "interrupted"
    /\ UNCHANGED <<progress_file, temp_csv, failed_list_file, output_file,
                   locals, runs, mode, ghosts>>

\* search_tv_show(ia, title) for the next title of the list.
ItemSearch ==
    /\ pc = "loop"
    /\ position < num_shows
    /\ position + 1 >= start_position
    /\ position' = position + 1
    /\ lookups' = Append(lookups, position + 1)
    /\ ret' = search_item(script, retries)
    /\ pc' = "searched"
    /\ UNCHANGED <<inputs, disk, last_position, start_position, results,
                   success_count, failed_count, runs, mode, temp_base,
                   failed_base, list_base, processed, boundary, last_done,
                   start_files, start_marker>>

\* The loop body after search_tv_show returned.
ItemRecord ==
    /\ pc = "searched"
    /\ RecordItem(position, ret.show, extract)
    /\ processed' = processed \cup {position}
    /\ last_done' = position
    /\ pc' = "checkpoint"
    /\ UNCHANGED <<inputs, ret, progress_file, output_file, last_position,
                   start_position, position, runs, mode, lookups, temp_base,
                   failed_base, list_base, boundary, start_files,
                   start_marker>>

\* search_tv_show(ia, title, retries) called on its own.
CallSearch ==
    /\ pc = "idle"
    /\ ret' = search_item(script, retries)
    /\ pc' = "returned"
    /\ UNCHANGED <<inputs, disk, last_position, start_position, position,
                   results, success_count, failed_count, runs, mode, ghosts>>

Next ==
    \/ StartRun
    \/ Resume
    \/ Restart
    \/ RemoveTemp
    \/ RemoveProgress
    \/ InitTemp
    \/ Skip
    \/ ProcessItem
    \/ Checkpoint
    \/ WriteFinal
    \/ CleanupTemp
    \/ CleanupProgress
    \/ Abort
    \/ AbortInSaveProgress
    \/ AbortInAppendFailure

Spec == Init /\ [][Next]_vars

\* The operator answers 'y' at every prompt; a list of LongShows titles.
NextResume ==
    \/ StartRunResume
    \/ Resume
    \/ InitTemp
    \/ Skip
    \/ ProcessItem
    \/ Checkpoint
    \/ WriteFinal
    \/ CleanupTemp
    \/ CleanupProgress
    \/ Abort
    \/ AbortInSaveProgress
    \/ AbortInAppendFailure

SpecResume == InitLong /\ [][NextResume]_vars

\* The steps an invocation takes by itself: every statement of a running
\* process is eventually executed, and the prompt is eventually answered.
Step ==
    \/ Resume
    \/ Restart
    \/ RemoveTemp
    \/ RemoveProgress
    \/ InitTemp
    \/ Skip
    \/ ProcessItem
    \/ Checkpoint
    \/ WriteFinal
    \/ CleanupTemp
    \/ CleanupProgress

\* One invocation that no interrupt reaches.
NextFair ==
    \/ StartRunUpTo(1)
    \/ Step

SpecFair == InitFair /\ [][NextFair]_vars /\ WF_vars(Step)

\* One uninterrupted invocation on a list of one title.
NextItem ==
    \/ StartRunUpTo(1)
    \/ InitTemp
    \/ ItemSearch
    \/ ItemRecord
    \/ Checkpoint
    \/ WriteFinal
    \/ CleanupTemp
    \/ CleanupProgress

SpecItem == InitItem /\ [][NextItem]_vars

NextRetry == CallSearch

SpecRetry == InitRetry /\ [][NextRetry]_vars

\* ------------------------------------------------- vocabulary of the claims
Range(seq) == {seq[i] : i \in DOMAIN seq}

Count(seq, p) == Cardinality({i \in DOMAIN seq : seq[i] = p})

Beyond(seq, base) == SubSeq(seq, base + 1, Len(seq))

\* Rows appended to the temporary CSV, and entries appended to the two
\* failure files, by the invocation in progress.
RunRows == Beyond(temp_csv, temp_base)
RunFailed == Beyond(FailedEntries, failed_base)
RunFailedList == Beyond(failed_list_file, list_base)

Increasing(seq) == \A i, j \in DOMAIN seq : i < j => seq[i] < seq[j]

MarkerReadable == Exists("progress") /\ progress_file # Unreadable

InLoop == pc \in {"loop", "checkpoint"}

\* ----------------------------------------------------------------------- C1
\* C1 as stated: whenever the progress file holds P, each position 1..P has
\* exactly one outcome on disk (one row of the temporary CSV or one entry of
\* the failure log), across any sequence of runs.
C1_ExactlyOneOutcomeUpToMarker ==
    MarkerReadable =>
        \A p \in 1..progress_file :
            Count(temp_csv, p) + Count(failed_file, p) = 1

\* C1 amended: once the invocation in progress has itself written the
\* progress file (value P), every position from its start position through P
\* has had exactly one outcome appended by this invocation: one row appended
\* to the temporary CSV or one entry appended to each failure file, not both.
C1_MarkerCoversRunOutcomes ==
    (InLoop /\ boundary >= start_position) =>
        /\ MarkerReadable
        /\ progress_file = boundary
        /\ \A p \in start_position..progress_file :
              /\ Count(RunRows, p) + Count(RunFailed, p) = 1
              /\ Count(RunFailed, p) = Count(RunFailedList, p)

\* C1 witness: a run that wrote marker 10 after both a success and a failure.
C1_Witness ==
    /\ InLoop
    /\ boundary >= start_position
    /\ progress_file = 10
    /\ Range(RunFailed) # {}
    /\ Len(RunRows) > 0

\* ----------------------------------------------------------------------- C2
\* C2: after a resume from marker M, search_tv_show is called for M+1, M+2,
\* ... in order and for nothing else, and no row and no failure entry is
\* appended for a position <= M; at the end all of M+1..N were looked up.
C2_ResumeSkipsCheckpointed ==
    (mode = "resume" /\ pc \in Running \cup {"done"}) =>
        /\ last_position = start_marker
        /\ start_position = last_position + 1
        /\ \A i \in DOMAIN lookups : lookups[i] = last_position + i
        /\ \A p \in Range(RunRows) \cup Range(RunFailed)
                    \cup Range(RunFailedList) : p > last_position
        /\ pc \in {"cleanup_temp", "cleanup_progress", "done"} =>
              Len(lookups) = num_shows - last_position

\* C2 witness: a run resumed from marker 10 is done after looking up 11 only.
C2_Witness ==
    /\ mode = "resume"
    /\ pc = "done"
    /\ last_position = 10
    /\ lookups = <<11>>

\* ----------------------------------------------------------------------- C3
\* C3: when the operator always resumes, by the time an invocation is done
\* every position 1..N was processed in some run segment, and an invocation
\* that resumes starts no later than the position after the last multiple
\* of 10 checkpointed by the segment that was aborted, so that the tail
\* after that boundary is processed again.
C3_TailProcessedAgain ==
    /\ pc = "done" => \A p \in 1..num_shows : p \in processed
    /\ (mode = "resume" /\ pc \in Running /\ lookups = <<>>) =>
          \A p \in (boundary + 1)..last_done : p >= start_position

\* ----------------------------------------------------------------------- C4
\* C4: every position processed in the run has either a row in `results`
\* (and no failure entry of this run) or a failure entry of this run (and
\* no row in `results`), also when append_to_csv raises.
C4_ExactlyOneRecord ==
    (InLoop \/ pc \in {"cleanup_temp", "cleanup_progress", "done"}) =>
        \A p \in Range(lookups) :
            (p \in Range(results)) # (p \in Range(RunFailed))

\* ----------------------------------------------------------------------- C5
\* C5: at Done, success_count + failed_count = N, success_count is the
\* number of rows of the final CSV and failed_count the number of failure
\* entries appended in this run.
C5_CountsAddUp ==
    pc = "done" =>
        /\ success_count + failed_count = num_shows
        /\ success_count = Len(output_file) - 1
        /\ failed_count = Len(RunFailedList)

\* ----------------------------------------------------------------------- C6
\* C6: once a position P with P mod 10 = 0 has been processed and before
\* the next lookup, the progress file holds P; and the progress file is
\* written only in the step that follows a position that is a multiple of 10.
C6_MarkerAfterMultipleOfTen ==
    (pc = "loop" /\ position >= start_position /\ position > 0
        /\ position % 10 = 0) =>
            (MarkerReadable /\ progress_file = position)

C6_MarkerWrittenOnlyThen ==
    [][("progress" \in files'
          /\ (progress_file' # progress_file \/ "progress" \notin files))
        => (pc = "checkpoint" /\ position % 10 = 0)]_vars

\* C6, both halves: the progress file holds P right after a multiple of 10
\* was processed, and it is written at no other point.
C6_MarkerEveryTen == []C6_MarkerAfterMultipleOfTen /\ C6_MarkerWrittenOnlyThen

\* C6 witness: position 10 of a run from position 1 is complete.
C6_Witness ==
    /\ pc = "loop"
    /\ position = 10
    /\ start_position = 1
    /\ progress_file = 10
    /\ Exists("progress")

\* ----------------------------------------------------------------------- C7
\* C7: within one invocation the value in the progress file never goes
\* down, whatever artifacts were present at startup: a readable value is
\* never below the readable value found at startup.
C7_MarkerNeverDecreases ==
    (pc \in Running /\ mode # "restart" /\ MarkerReadable
        /\ "progress" \in start_files /\ start_marker # Unreadable) =>
            progress_file >= start_marker

C9_RestartState ==
    /\ (mode = "restart" /\ pc \in {"rm_temp", "rm_progress", "init"}) =>
          (lookups = <<>> /\ position = 0 /\ start_position = 1)
    /\ (mode = "restart" /\ pc = "init") =>
          (~Exists("temp") /\ ~Exists("progress"))
    /\ (mode = "restart" /\ pc = "loop" /\ position = 0) =>
          /\ start_position = 1
          /\ ~Exists("progress")
          /\ Exists("temp")
          /\ Range(temp_csv) \cap (1..num_shows) = {}
          /\ Len(FailedEntries) = failed_base
          /\ Len(failed_list_file) = list_base

C9_FailureFilesUntouched ==
    [][(pc \in {"prompt", "rm_temp", "rm_progress", "init"}) =>
          (failed_file' = failed_file
             /\ failed_list_file' = failed_list_file
             /\ files' \cap {"failed", "failed_list"}
                   = files \cap {"failed", "failed_list"})]_vars

\* C9, both halves: a restart deletes the two artifacts before the loop
\* starts at 1 on a new temporary CSV, and leaves the failure files alone.
C9_RestartClearsCheckpoint == []C9_RestartState /\ C9_FailureFilesUntouched

\* C9 witness: a restart reached the loop with failure files left from before.
C9_Witness ==
    /\ mode = "restart"
    /\ pc = "loop"
    /\ position = 0
    /\ start_files = {"progress", "temp"}
    /\ Len(failed_file) > 0

\* ---------------------------------------------------------------------- C10
\* C10: with neither artifact present at startup the loop starts at 1 on a
\* temporary CSV that holds the header and as many data rows as successes
\* appended so far (none before the first item).
C10_FreshStoreHeaderOnly ==
    (start_files = {} /\ mode = "fresh" /\ InLoop) =>
        /\ start_position = 1
        /\ Exists("temp")
        /\ temp_csv[1] = CsvHeader
        /\ Len(temp_csv) - 1 = success_count

\* ------------------------------------------ vocabulary of the lookup claims
\* search_tv_show has returned for the single title of SpecItem / SpecRetry.
Returned == ret # NoRet

\* The outcome of the title has been recorded by the loop body.
Recorded == position = 1 /\ pc \notin {"searched", "aborted", "idle"}

\* The text of a raised error contains '405', '429' or 'Too Many Requests'.
RateLimitText(m) == m.has405 \/ m.has429 \/ m.hasTMR

RECURSIVE SumSeq(_)
SumSeq(s) == IF s = <<>> THEN 0 ELSE Head(s) + SumSeq(Tail(s))

\* ---------------------------------------------------------------------- C11
\* C11: a title whose search is classified transient on attempts 1 and 2
\* and finds a series on attempt 3 makes search_tv_show sleep exactly twice,
\* 2 s then 4 s, and return the show without an error; the loop body (whose
\* extraction goes well) records a success and no failure entry.
C11_TwoTransientThenFound ==
    OutcomesOf(script) = <<"transient", "transient", "found">> =>
        /\ Returned =>
              /\ ret.sleeps = <<2, 4>>
              /\ ret.calls = 3
              /\ ret.show
              /\ ret.error = ""
        /\ (Recorded /\ extract = "ok") =>
              /\ success_count = 1
              /\ failed_count = 0
              /\ results = <<1>>
              /\ pc = "checkpoint" => temp_csv = InitTempContent \o <<1>>
              /\ ~Exists("failed")
              /\ ~Exists("failed_list")

C11_Witness ==
    /\ OutcomesOf(script) = <<"transient", "transient", "found">>
    /\ pc = "checkpoint"
    /\ extract = "ok"
    /\ ret.sleeps = <<2, 4>>
    /\ success_count = 1

\* ---------------------------------------------------------------------- C12
\* The first call of ia.search_movie ends the lookup for good: it raises an
\* error whose text holds none of '405', '429', 'Too Many Requests', or it
\* returns no result, or results none of which is an accepted series.
FirstAttemptPermanent ==
    LET r == script[1] IN
    \/ r.raised /\ ~RateLimitText(r.text)
    \/ /\ ~r.raised
       /\ \A i \in DOMAIN r.cands :
             r.cands[i] \notin {"tv series", "tv mini series"}

\* C12: when the first attempt is permanent, search_tv_show makes exactly
\* one search call and no sleep and returns a failure, and the loop body
\* appends exactly one failure record for the position (and no row).
C12_PermanentFailsAtOnce ==
    FirstAttemptPermanent =>
        /\ Returned =>
              /\ ret.calls = 1
              /\ ret.sleeps = <<>>
              /\ ~ret.show
              /\ ret.error # ""
        /\ Recorded =>
              /\ FailedEntries = <<1>>
              /\ failed_list_file = <<1>>
              /\ failed_count = 1
              /\ success_count = 0
              /\ results = <<>>
              /\ Range(temp_csv) \cap {1} = {}

C12_Witness ==
    /\ FirstAttemptPermanent
    /\ script[1].raised
    /\ pc = "checkpoint"
    /\ ret.calls = 1
    /\ failed_list_file = <<1>>

\* ---------------------------------------------------------------------- C13
\* C13 as stated: with the default max_retries = 3, a title whose search is
\* transient on every attempt is retried three times with backoff sleeps of
\* 2 s, 4 s and 8 s in that order, and only then is the failure returned,
\* described as '<error type>: <message>'.
C13_ThreeBackoffSleeps ==
    (/\ OutcomesOf(script) = <<"transient", "transient", "transient">>
     /\ Returned) =>
        /\ ret.sleeps = <<2, 4, 8>>
        /\ ~ret.show
        /\ ret.error = "Exception: HTTP 429: Too Many Requests"

\* ---------------------------------------------------------------------- C17
\* The response of the attempt that made search_tv_show return.
LastResponse == script[ret.calls]

\* The first result, in returned order, whose details were fetched without
\* an error and whose kind is a series kind (0 when there is none).
FirstSeries(cands) ==
    LET ok == {i \in DOMAIN cands : cands[i] \in {"tv series", "tv mini series"}}
    IN  IF ok = {} THEN 0 ELSE CHOOSE i \in ok : \A j \in ok : i <= j

\* C17: in an attempt whose result list is not empty the result returned is
\* the first one whose ia.update did not raise and whose kind is 'tv series'
\* or 'tv mini series'; no later result is fetched; a result whose ia.update
\* raises (rate-limit-class or not) is skipped without a sleep or a retry;
\* with no such result the outcome is "No TV series found in results" and
\* with an empty list "No results found", both without a retry.
C17_FirstAcceptedResult ==
    (Returned /\ ~LastResponse.raised) =>
        LET cands == LastResponse.cands
            first == FirstSeries(cands)
        IN  /\ ret.match = first
            /\ ret.show <=> first > 0
            /\ first > 0 => ret.fetched = first /\ ret.error = ""
            /\ (first = 0 /\ cands # <<>>) =>
                  /\ ret.fetched = Len(cands)
                  /\ ret.error = "No TV series found in results"
            /\ cands = <<>> =>
                  /\ ret.fetched = 0
                  /\ ret.error = "No results found"
            \* sleeps and calls come from raised searches only
            /\ ret.calls = 1 + Len(ret.sleeps)
            /\ \A i \in 1..(ret.calls - 1) : script[i].raised

C17_Witness ==
    /\ Returned
    /\ ~LastResponse.raised
    /\ LastResponse.cands = <<"update raises 429", "tv mini series">>
    /\ ret.match = 2
    /\ ret.calls = 1
    /\ ret.sleeps = <<>>

\* ---------------------------------------------------------------------- C14
\* The positions start_position..num_shows in order.
ToProcess ==
    [i \in 1..(num_shows - start_position + 1) |-> start_position - 1 + i]

\* An invocation that is not interrupted reaches Done.
C14_Terminates == (pc \in Running) ~> (pc = "done")

\* No outcome of an item ends the invocation, and the loop is left only
\* when the list is exhausted.
C14_LoopRunsToEnd ==
    [][/\ pc' \notin {"interrupted", "aborted"}
       /\ (pc = "loop" /\ pc' # "loop") =>
             \/ pc' = "checkpoint" /\ position' = position + 1
             \/ pc' = "cleanup_temp" /\ lookups = ToProcess]_vars

\* Every position from the start position on gets its lookup, and every
\* failure is in both failure files and in failed_count.
C14_AllProcessed ==
    /\ pc = "done" => lookups = ToProcess
    /\ (InLoop \/ pc \in {"cleanup_temp", "cleanup_progress", "done"}) =>
          /\ failed_count = Len(RunFailed)
          /\ failed_count = Len(RunFailedList)
          /\ RunFailed = RunFailedList
          /\ \A p \in Range(lookups) :
                p \in Range(results) \/ p \in Range(RunFailed)

\* C14: absent an interrupt, whatever the list length, the start position
\* and the outcomes of the items, the invocation reaches Done after looking
\* up every position from the start position through N; no outcome of an
\* item aborts the run or ends the loop early, and every failure is appended
\* to both failure files and counted in failed_count.
C14_RunCompletes ==
    /\ C14_Terminates
    /\ C14_LoopRunsToEnd
    /\ []C14_AllProcessed

C14_Witness ==
    /\ pc = "done"
    /\ mode = "resume"
    /\ start_position = 11
    /\ lookups = <<11>>
    /\ failed_count = 1

\* ---------------------------------------------------------------------- C15
\* The outcome of position p is on disk: a row of the temporary CSV, or an
\* entry in each of the two failure files (or, when append_to_csv raised,
\* the failure entries alone).
OutcomeRecorded(p) ==
    \/ p \in Range(RunRows)
    \/ p \in Range(RunFailed) /\ p \in Range(RunFailedList)

\* In the step that comes after the loop body and before the checkpoint test
\* and the delay, the position in hand is the last one looked up and its
\* outcome is recorded.
C15_RecordedBeforeCheckpoint ==
    pc = "checkpoint" =>
        /\ lookups # <<>>
        /\ lookups[Len(lookups)] = position
        /\ OutcomeRecorded(position)

\* The progress file is advanced only to a position whose outcome is
\* recorded, and a lookup begins only when every earlier lookup of the run
\* has its outcome recorded and its checkpoint step behind it.
C15_OrderOfEffects ==
    [][/\ (Exists("progress")' /\ progress_file' # progress_file
             /\ progress_file' # Unreadable) =>
             /\ pc = "checkpoint"
             /\ progress_file' = position
             /\ OutcomeRecorded(position)
       /\ (lookups' # lookups /\ lookups' # <<>>) =>
             /\ pc = "loop"
             /\ lookups' = Append(lookups, position + 1)
             /\ \A p \in Range(lookups) : OutcomeRecorded(p)
             /\ (position >= start_position /\ position % 10 = 0) =>
                   progress_file = position]_vars

\* C15: the outcome of a position is recorded before the progress file is
\* advanced to it, before the delay and before the next lookup begins;
\* lookups are made in strictly increasing order, one position at a time.
C15_OutcomeBeforeMarker ==
    /\ []C15_RecordedBeforeCheckpoint
    /\ C15_OrderOfEffects
    /\ [](Increasing(lookups) /\ (InLoop => Len(lookups) <= position))

C15_Witness ==
    /\ pc = "loop"
    /\ position = 10
    /\ progress_file = 10
    /\ Len(lookups) = 10
    /\ 10 \in Range(RunFailedList)

\* ---------------------------------------------------------------------- C16
\* The four artifacts the claim names.
durable == <<files, progress_file, temp_csv, failed_file, failed_list_file>>

\* The exit of an interrupted invocation, from any point, leaves the four
\* artifacts as they were when the interrupt was raised, and so does the
\* start of the next invocation up to its resume check.
C16_AbortKeepsFiles ==
    [][(pc' = "aborted" \/ pc = "aborted") => UNCHANGED durable]_vars

\* The invocation that finds the marker M and the temporary CSV is offered
\* the resume, and on 'y' starts at M + 1.
C16_ResumeAfterMarker ==
    [][/\ (pc = "aborted" /\ pc' # pc /\ MarkerReadable /\ Exists("temp")) =>
             (pc' = "prompt" /\ last_position' = progress_file)
       /\ (pc = "prompt" /\ mode' = "resume") =>
             /\ MarkerReadable
             /\ Exists("temp")
             /\ start_position' = progress_file + 1]_vars

\* C16: an abort taken from any point of processing changes none of the
\* progress file, the temporary CSV and the two failure files, and the
\* next invocation that finds marker M with the temporary CSV and resumes
\* starts at M + 1.
C16_AbortFrame == C16_AbortKeepsFiles /\ C16_ResumeAfterMarker

C16_Witness ==
    /\ runs = 2
    /\ mode = "resume"
    /\ pc = "loop"
    /\ last_position = 10
    /\ start_position = 11
    /\ temp_base > 2

C18_AppendOnly ==
    [][\/ UNCHANGED <<failed_file, failed_list_file>>
       \/ \E p \in 1..num_shows :
             /\ failed_file' = IF Exists("failed")
                               THEN failed_file \o <<p>>
                               ELSE <<FailedHeader, p>>
             /\ Exists("failed")'
             /\ \/ failed_list_file' = failed_list_file \o <<p>>
                \/ /\ pc' = "interrupted"
                   /\ failed_list_file' = failed_list_file]_vars

\* The entries a run has appended are the same in both files as long as it
\* is not interrupted, and no file ever holds more than one header block.
C18_RunEntriesAgree ==
    /\ (InLoop \/ pc \in {"cleanup_temp", "cleanup_progress", "done"}) =>
          RunFailed = RunFailedList
    /\ Len(FailedEntries) >= Len(failed_list_file)
    /\ Exists("failed") <=> failed_file # <<>>
    /\ Exists("failed") =>
          failed_file[1] = FailedHeader /\ Count(failed_file, FailedHeader) = 1

OneArtifactAtStart ==
    \/ start_files = {"progress"}
    \/ start_files = {"temp"}
    \/ "progress" \in start_files /\ start_marker = Unreadable

\* No position that is a multiple of 10 has gone through its checkpoint
\* step in this invocation yet.
BeforeFirstCheckpoint ==
    \/ pc = "init"
    \/ InLoop /\ position < 10
    \/ pc = "checkpoint" /\ position = 10

\* C19: when exactly one of the two artifacts exists at startup (or the
\* progress file is unreadable), no resume prompt comes up, processing
\* starts at position 1 and the temporary CSV is written anew, its earlier
\* content gone; a progress file that was there is neither deleted nor
\* reset and keeps its content until the run completes a position that is
\* a multiple of 10.
C19_LoneArtifactStartsOver ==
    (pc \in Running /\ OneArtifactAtStart) =>
        /\ pc \notin {"prompt", "rm_temp", "rm_progress"}
        /\ mode = "fresh"
        /\ start_position = 1
        /\ (pc = "loop" /\ position = 0) => temp_csv = InitTempContent
        /\ InLoop =>
              /\ temp_base = Len(InitTempContent)
              /\ SubSeq(temp_csv, 1, temp_base) = InitTempContent
              /\ Range(RunRows) \subseteq Range(lookups)
        /\ ("progress" \in start_files /\ BeforeFirstCheckpoint) =>
              /\ Exists("progress")
              /\ progress_file = start_marker

C19_Witness ==
    /\ start_files = {"progress"}
    /\ start_marker = 10
    /\ pc = "loop"
    /\ position = 5
    /\ progress_file = 10
    /\ Len(temp_csv) > 2

====
